---- MODULE Spec2Model ----
(***************************************************************************)
(* Model of promptpig's Prompt (src/index.ts): the extraction / tolerant   *)
(* parse / validate pipeline of Prompt.run and the streaming state machine *)
(* of Prompt.stream.                                                       *)
(*                                                                         *)
(* A text is a sequence of one-character strings.  The characters the      *)
(* upstream produces here are  [ ] , 1 2 newline and the fence character   *)
(* (the backtick, written Tick).  The operators below also treat the other *)
(* members of the character classes the code uses (space, tab, CR, the     *)
(* digits, "}" and "-"), so that they stay right when a larger alphabet is *)
(* fed in.  JSON strings, objects and the keyword literals need characters *)
(* outside this alphabet and are not produced; over this alphabet          *)
(* YAML.parse never returns a sequence.                                    *)
(*                                                                         *)
(* Spec is one Prompt that is run or streamed.  ExtractSpec applies        *)
(* extractCode to a text, ConfigSpec builds a client and a prompt and      *)
(* sends requests, TwinSpec interleaves two invocations of stream, and     *)
(* PullSpec is stream as a generator driven by its consumer.               *)
(***************************************************************************)
EXTENDS Integers, Sequences, FiniteSets, TLC

VARIABLES
  schema,     \* this.schema of the Prompt
  pc,         \* "created", "loop" (stream awaits an event), "done" (stream
              \* has finished), "failed" (an exception left stream),
              \* "returned" (run has returned)
  buffer,     \* stream: buffer
  itemsDone,  \* stream: itemsDone
  out,        \* stream: the items yielded so far, in order
  outIdx,     \* for each item of out, the array index i it was yielded for
  skipped,    \* the array indices whose element failed safeParse, in order
  text,       \* the concatenation of all deltas the upstream has delivered
  received,   \* the number of non-empty deltas the upstream has delivered
  msg,        \* run: the message content of the completion
  result,     \* run: the value returned
  m,          \* stream: the delta content of the event handled last
  ex,         \* extractCode applied to a text on its own: text and window
  cfg,        \* PromptPig and Prompt construction and the request they send
  twin,       \* two stream invocations of one Prompt, interleaved
  gen         \* stream as a generator driven by its consumer

\* the state of Prompt.run and of one Prompt.stream fed event by event
core == <<schema, pc, buffer, itemsDone, out, outIdx, skipped, text,
          received, msg, result, m>>

\* the state of the other views of the program
aux == <<ex, cfg, twin, gen>>

vars == <<schema, pc, buffer, itemsDone, out, outIdx, skipped, text,
          received, msg, result, m, ex, cfg, twin, gen>>

\* the value of a part of the state that a specification does not use
Unused == [pc |-> "unused"]

\* Largest number of non-empty fragments the upstream delivers in one stream.
MaxFrags == 3

\* Largest number of fragments that make up the complete text run is given.
MaxRunFrags == 3

----------------------------------------------------------------------------
\* Characters and character classes

\* the fence character of codeBlockExp (a backtick)
Tick == "tick"

Digits == {"0", "1", "2", "3", "4", "5", "6", "7", "8", "9"}

DigitVal(c) ==
  CASE c = "0" -> 0 [] c = "1" -> 1 [] c = "2" -> 2 [] c = "3" -> 3
    [] c = "4" -> 4 [] c = "5" -> 5 [] c = "6" -> 6 [] c = "7" -> 7
    [] c = "8" -> 8 [] c = "9" -> 9

\* the letters that occur in the texts (of a language tag such as json)
Letters == {"j", "s", "o", "n"}

\* \w of the fence regular expression, restricted to the alphabet in use
IsWord(c) == c \in Digits \cup Letters \cup {"_"}

\* the blanks of skipBlank, String.trim and JSON.parse
IsBlank(c) == c \in {" ", "\n", "\r", "\t"}

----------------------------------------------------------------------------
\* Values produced by parsing: numbers, arrays, null and strings

Null == [t |-> "null", v |-> <<>>]
Num(n) == [t |-> "num", v |-> n]
Arr(a) == [t |-> "arr", v |-> a]
Str(s) == [t |-> "str", v |-> s]

\* Array.isArray
IsArray(d) == d.t = "arr"

\* undefined: what run returns for an invalid output, and a delta or message
\* content that is not there
Undefined == [t |-> "undefined", v |-> <<>>]

\* typeof x === 'string'
IsString(d) == d.t = "str"

----------------------------------------------------------------------------
\* extractCode (src/index.ts:54-69)

RECURSIVE SkipSpaces(_, _)
\* first position at or after i that does not hold a space
SkipSpaces(s, i) ==
  IF i <= Len(s) /\ s[i] = " " THEN SkipSpaces(s, i + 1) ELSE i

RECURSIVE SkipWord(_, _)
\* first position at or after i that does not hold a \w character
SkipWord(s, i) ==
  IF i <= Len(s) /\ IsWord(s[i]) THEN SkipWord(s, i + 1) ELSE i

\* three fence characters at positions i, i+1, i+2
FenceAt(s, i) ==
  i + 2 <= Len(s) /\ s[i] = Tick /\ s[i + 1] = Tick /\ s[i + 2] = Tick

\* the tail of codeBlockExp (three fence characters, \w*, spaces, an optional
\* newline), the fence starting at i: the position just after the match
FenceEnd(s, i) ==
  LET j == SkipSpaces(s, SkipWord(s, i + 3))
  IN  IF j <= Len(s) /\ s[j] = "\n" THEN j + 1 ELSE j

\* codeBlockExp (an optional newline, spaces, then the tail above) tried at
\* start position p: the position just after the match, 0 when none starts at p
MatchAt(s, p) ==
  LET q == IF p <= Len(s) /\ s[p] = "\n" THEN SkipSpaces(s, p + 1) ELSE 0
      r == SkipSpaces(s, p)
  IN  IF q # 0 /\ FenceAt(s, q) THEN FenceEnd(s, q)
      ELSE IF FenceAt(s, r) THEN FenceEnd(s, r)
      ELSE 0

RECURSIVE FindMatch(_, _)
\* the next match of the global expression scanning from position p:
\* <<start, end>>, <<0, 0>> when there is none
FindMatch(s, p) ==
  IF p > Len(s) THEN <<0, 0>>
  ELSE IF MatchAt(s, p) # 0 THEN <<p, MatchAt(s, p)>>
  ELSE FindMatch(s, p + 1)

RECURSIVE MatchCount(_, _)
\* matches.length: the number of matches scanning from position p
MatchCount(s, p) ==
  LET mt == FindMatch(s, p)
  IN  IF mt[1] = 0 THEN 0 ELSE 1 + MatchCount(s, mt[2])

RECURSIVE LastMatch(_, _)
\* the last match scanning from position p, <<0, 0>> when there is none
LastMatch(s, p) ==
  LET mt == FindMatch(s, p)
  IN  IF mt[1] = 0 THEN <<0, 0>>
      ELSE IF FindMatch(s, mt[2])[1] = 0 THEN mt
      ELSE LastMatch(s, mt[2])

\* extractCode that ends the window at the last match instead of the second
extractCodeToLast(s) ==
  LET m1 == FindMatch(s, 1)
      m2 == LastMatch(s, m1[2])
  IN  IF m1[1] = 0 THEN s
      ELSE IF m2[1] = 0 THEN SubSeq(s, m1[2], Len(s))
      ELSE SubSeq(s, m1[2], m2[1] - 1)

\* extractCode that slices a single match from its index, without its length
extractCodeKeepFence(s) ==
  LET m1 == FindMatch(s, 1)
      m2 == FindMatch(s, m1[2])
  IN  IF m1[1] = 0 THEN s
      ELSE IF m2[1] = 0 THEN SubSeq(s, m1[1], Len(s))
      ELSE SubSeq(s, m1[2], m2[1] - 1)

extractCode(s) ==
  LET m1 == FindMatch(s, 1)
      m2 == FindMatch(s, m1[2])
  IN  IF m1[1] = 0 THEN s
      ELSE IF m2[1] = 0 THEN SubSeq(s, m1[2], Len(s))
      ELSE SubSeq(s, m1[2], m2[1] - 1)

----------------------------------------------------------------------------
\* PartialJSON.parse, as called by parseAny (src/index.ts:73) with the default
\* Allow.ALL

RECURSIVE SkipBlank(_, _)
\* skipBlank: first position at or after i that does not hold a blank
SkipBlank(s, i) ==
  IF i <= Len(s) /\ IsBlank(s[i]) THEN SkipBlank(s, i + 1) ELSE i

RECURSIVE LastNonBlank(_, _)
\* last position at or before i that does not hold a blank, 0 when none
LastNonBlank(s, i) ==
  IF i >= 1 /\ IsBlank(s[i]) THEN LastNonBlank(s, i - 1) ELSE i

\* String.prototype.trim
Trim(s) == SubSeq(s, SkipBlank(s, 1), LastNonBlank(s, Len(s)))

RECURSIVE DecimalValue(_)
DecimalValue(s) ==
  IF s = <<>> THEN 0
  ELSE 10 * DecimalValue(SubSeq(s, 1, Len(s) - 1)) + DigitVal(s[Len(s)])

\* JSON.parse accepts s as a number: digits without a leading zero, then
\* blanks (s starts at a non-blank; fractions and exponents need characters
\* the upstream does not produce)
IsJsonNumber(s) ==
  LET lit == Trim(s)
      body == IF lit # <<>> /\ lit[1] = "-" THEN Tail(lit) ELSE lit
  IN  /\ body # <<>>
      /\ \A i \in 1..Len(body) : body[i] \in Digits
      /\ (Len(body) > 1 => body[1] # "0")

\* the number JSON.parse reads from a text it accepts as a number
JsonNumber(s) ==
  LET lit == Trim(s)
  IN  IF lit[1] = "-" THEN Num(0 - DecimalValue(Tail(lit)))
      ELSE Num(DecimalValue(lit))

RECURSIVE NumberEnd(_, _)
\* parseNum's scan: first position at or after i holding one of , ] } or the
\* position after the end of s
NumberEnd(s, i) ==
  IF i <= Len(s) /\ s[i] \notin {",", "]", "}"} THEN NumberEnd(s, i + 1) ELSE i

\* parseNum at position i (1-based; the code's index === 0 is i = 1), where
\* s[i] is none of " [ { and starts no keyword literal.  A result is
\* [ok, i, v]: ok is FALSE when the call throws, i is the position the
\* parser's index is left at.
parseNum(s, i) ==
  IF i = 1
    THEN IF IsJsonNumber(s)
           THEN [ok |-> TRUE, i |-> Len(s) + 1, v |-> JsonNumber(s)]
           ELSE [ok |-> FALSE, i |-> 1, v |-> Null]
    ELSE LET start == i
             stop == NumberEnd(s, IF s[i] = "-" THEN i + 1 ELSE i)
             lit == SubSeq(s, start, stop - 1)
         IN  IF IsJsonNumber(lit)
               THEN [ok |-> TRUE, i |-> stop, v |-> JsonNumber(lit)]
               ELSE [ok |-> FALSE, i |-> stop, v |-> Null]

RECURSIVE pjParseAny(_, _), parseArr(_, _, _)
\* parseAny of the partial-json parser at position i0
pjParseAny(s, i0) ==
  LET i == SkipBlank(s, i0)
  IN  IF i > Len(s) THEN [ok |-> FALSE, i |-> i, v |-> Null]
      ELSE IF s[i] = "[" THEN parseArr(s, i + 1, <<>>)
      ELSE parseNum(s, i)

\* parseArr's loop with the index at i and arr collected so far; an exception
\* thrown while parsing an element ends the array with what was collected
parseArr(s, i, arr) ==
  IF i <= Len(s) /\ s[i] = "]" THEN [ok |-> TRUE, i |-> i + 1, v |-> Arr(arr)]
  ELSE LET r == pjParseAny(s, i)
           j == SkipBlank(s, r.i)
           k == IF j <= Len(s) /\ s[j] = "," THEN j + 1 ELSE j
       IN  IF ~r.ok THEN [ok |-> TRUE, i |-> r.i, v |-> Arr(arr)]
           ELSE parseArr(s, k, Append(arr, r.v))

\* PartialJSON.parse: throws on a blank text, else parses one value from the
\* trimmed text and ignores what follows it
PartialJSONparse(s) ==
  IF Trim(s) = <<>> THEN [ok |-> FALSE, i |-> 1, v |-> Null]
  ELSE pjParseAny(Trim(s), 1)

----------------------------------------------------------------------------
\* YAML.parse, as called by parseAny (src/index.ts:76), on the texts
\* PartialJSON.parse rejects: blank texts and texts whose first non-blank
\* character is not "[" (a text that starts with "[" never reaches it).
\* A blank document is null; a reserved or flow indicator at the start is an
\* error; anything else is a plain scalar.

RECURSIVE FoldLines(_)
\* line folding of a plain scalar: a single line break reads as a space
FoldLines(s) ==
  IF s = <<>> THEN <<>>
  ELSE <<IF s[1] = "\n" THEN " " ELSE s[1]>> \o FoldLines(Tail(s))

YAMLparse(s) ==
  LET body == Trim(s)
  IN  IF body = <<>> THEN [ok |-> TRUE, v |-> Null]
      ELSE IF body[1] \in {Tick, ",", "]", "}"} THEN [ok |-> FALSE, v |-> Null]
      ELSE [ok |-> TRUE, v |-> Str(FoldLines(body))]

\* the outcome of a call that ends in an exception instead of a value
Thrown == [t |-> "thrown", v |-> <<>>]

\* parseAny without the inner catch: a failure of YAML.parse leaves parseAny
parseAnyNoCatch(s) ==
  LET j == PartialJSONparse(s)
      y == YAMLparse(s)
  IN  IF j.ok THEN j.v
      ELSE IF y.ok THEN y.v
      ELSE Thrown

\* parseAny (src/index.ts:71-81)
parseAny(s) ==
  LET j == PartialJSONparse(s)
      y == YAMLparse(s)
  IN  IF j.ok THEN j.v
      ELSE IF y.ok THEN y.v
      ELSE Str(s)

----------------------------------------------------------------------------
\* Schemas (zod).  A schema is z.string(), a z.object(...), or
\* z.array(z.number().max(elementMax)), the array with an optional
\* .length(length).

NoLength == 0 - 1

ZString == [kind |-> "string", elementMax |-> 0, length |-> NoLength]
ZObject == [kind |-> "object", elementMax |-> 0, length |-> NoLength]
ZArray(max, len) == [kind |-> "array", elementMax |-> max, length |-> len]

Schemas == {ZString, ZObject, ZArray(1, NoLength), ZArray(1, 2)}

\* IsZodArray with the test widened to the schemas run extracts code for
IsZodArrayOrObject(sch) == sch.kind \in {"array", "object"}

\* this.schema instanceof ZodArray (src/index.ts:173, 206, 223)
IsZodArray(sch) == sch.kind = "array"

\* this.schema.element.safeParse(d).success; parse.data is d itself
elementSafeParse(sch, d) == d.t = "num" /\ d.v <= sch.elementMax

\* safeParse that accepts any array for an array schema
safeParseAnyArray(sch, d) ==
  CASE sch.kind = "string" -> IsString(d)
    [] sch.kind = "object" -> d.t = "object"
    [] sch.kind = "array" -> IsArray(d)

\* this.schema.safeParse(d).success; result.data is d itself
safeParse(sch, d) ==
  CASE sch.kind = "string" -> IsString(d)
    [] sch.kind = "object" -> d.t = "object"
    [] sch.kind = "array" ->
         /\ IsArray(d)
         /\ \A i \in 1..Len(d.v) : elementSafeParse(sch, d.v[i])
         /\ (sch.length # NoLength => Len(d.v) = sch.length)

----------------------------------------------------------------------------
\* Prompt.run (src/index.ts:160-183) on the message content the upstream
\* returned

\* run with the content test written as a falsy test, if (!msg)
runFalsy(sch, content) ==
  IF ~IsString(content) \/ content.v = <<>> THEN Undefined
  ELSE LET isCode == IsZodArray(sch) \/ sch.kind = "object"
           extract == IF isCode THEN extractCode(content.v) ELSE content.v
           data == IF sch.kind = "string" THEN Str(extract) ELSE parseAny(extract)
       IN  IF safeParse(sch, data) THEN data ELSE Undefined

run(sch, content) ==
  IF ~IsString(content) THEN Undefined
  ELSE LET schemaArray == IsZodArray(sch)
           schemaObj == sch.kind = "object"
           isCode == schemaArray \/ schemaObj
           extract == IF isCode THEN extractCode(content.v) ELSE content.v
           schemaStr == sch.kind = "string"
           data == IF schemaStr THEN Str(extract) ELSE parseAny(extract)
       IN  IF safeParse(sch, data) THEN data ELSE Undefined

----------------------------------------------------------------------------
\* Prompt.stream (src/index.ts:190-232)

\* the text deltas the upstream can deliver in one event
Fragments ==
  { <<"[">>, <<"]">>, <<",">>, <<"1">>, <<"1", ",">>,
    <<"[", "1", ",">>, <<"[", "2", ",">>,
    <<Tick>>, <<Tick, Tick>>, <<Tick, Tick, Tick>>,
    <<Tick, Tick, Tick, "[">>, <<"\n">> }

\* event.choices[0]?.delta.content: absent, empty, or a fragment
Deltas == {Undefined, Str(<<>>)} \cup {Str(f) : f \in Fragments}

RECURSIVE Texts(_)
\* the texts made of at most n fragments
Texts(n) ==
  IF n = 0 THEN {<<>>}
  ELSE LET shorter == Texts(n - 1)
       IN  shorter \cup {t \o f : t \in shorter, f \in Fragments}

\* completion.choices[0]?.message.content: absent, or a complete text
Contents == {Undefined} \cup {Str(t) : t \in Texts(MaxRunFrags)}

\* IsSkipped without the typeof test
IsSkippedEmptyOnly(delta) == IsString(delta) /\ Len(delta.v) = 0

\* IsSkipped without the length test
IsSkippedNonString(delta) == ~IsString(delta)

\* typeof m !== 'string' || !m.length (line 204): the event is passed over
IsSkipped(delta) == ~IsString(delta) \/ Len(delta.v) = 0

\* the part of the stream's state the element loops change
LoopState == [itemsDone |-> itemsDone, out |-> out, outIdx |-> outIdx,
              skipped |-> skipped]

\* Validate with the cursor advanced only for an element that is yielded
ValidateAdvanceOnSuccess(sch, data, i, st, advance) ==
  LET ok == elementSafeParse(sch, data.v[i + 1])
  IN  [itemsDone |-> IF advance /\ ok THEN st.itemsDone + 1 ELSE st.itemsDone,
       out |-> IF ok THEN Append(st.out, data.v[i + 1]) ELSE st.out,
       outIdx |-> IF ok THEN Append(st.outIdx, i) ELSE st.outIdx,
       skipped |-> IF ok THEN st.skipped ELSE Append(st.skipped, i)]

\* one pass of a loop body for the element data[i] (i counts from 0)
Validate(sch, data, i, st, advance) ==
  LET ok == elementSafeParse(sch, data.v[i + 1])
  IN  [itemsDone |-> IF advance THEN st.itemsDone + 1 ELSE st.itemsDone,
       out |-> IF ok THEN Append(st.out, data.v[i + 1]) ELSE st.out,
       outIdx |-> IF ok THEN Append(st.outIdx, i) ELSE st.outIdx,
       skipped |-> IF ok THEN st.skipped ELSE Append(st.skipped, i)]

RECURSIVE AccumulateLoopNoAdvance(_, _, _, _)
\* AccumulateLoop without itemsDone++
AccumulateLoopNoAdvance(sch, data, i, st) ==
  IF i < Len(data.v) - 1
    THEN AccumulateLoopNoAdvance(sch, data, i + 1,
                                 Validate(sch, data, i, st, FALSE))
    ELSE st

RECURSIVE AccumulateLoopToLast(_, _, _, _)
\* AccumulateLoop with the bound of the loop after the stream
AccumulateLoopToLast(sch, data, i, st) ==
  IF i < Len(data.v)
    THEN AccumulateLoopToLast(sch, data, i + 1,
                              Validate(sch, data, i, st, TRUE))
    ELSE st

RECURSIVE AccumulateLoopButTwo(_, _, _, _)
\* AccumulateLoop that holds back the last two elements
AccumulateLoopButTwo(sch, data, i, st) ==
  IF i < Len(data.v) - 2
    THEN AccumulateLoopButTwo(sch, data, i + 1,
                              Validate(sch, data, i, st, TRUE))
    ELSE st

RECURSIVE AccumulateLoop(_, _, _, _)
\* for (let i = itemsDone; i < data.length - 1; i++), lines 216-220
AccumulateLoop(sch, data, i, st) ==
  IF i < Len(data.v) - 1
    THEN AccumulateLoop(sch, data, i + 1, Validate(sch, data, i, st, TRUE))
    ELSE st

RECURSIVE DrainLoopButLast(_, _, _, _)
\* DrainLoop with the bound of the loop inside the stream
DrainLoopButLast(sch, data, i, st) ==
  IF i < Len(data.v) - 1
    THEN DrainLoopButLast(sch, data, i + 1,
                          Validate(sch, data, i, st, FALSE))
    ELSE st

RECURSIVE DrainFrom(_, _, _, _)
DrainFrom(sch, data, i, st) ==
  IF i < Len(data.v)
    THEN DrainFrom(sch, data, i + 1, Validate(sch, data, i, st, FALSE))
    ELSE st

\* DrainLoop started at index 0 instead of itemsDone
DrainLoopRestart(sch, data, i, st) == DrainFrom(sch, data, 0, st)

RECURSIVE DrainLoop(_, _, _, _)
\* for (let i = itemsDone; i < data.length; i++), lines 228-231
DrainLoop(sch, data, i, st) ==
  IF i < Len(data.v)
    THEN DrainLoop(sch, data, i + 1, Validate(sch, data, i, st, FALSE))
    ELSE st

Init ==
  /\ schema \in Schemas
  /\ pc = "created"
  /\ buffer = <<>>
  /\ itemsDone = 0
  /\ out = <<>>
  /\ outIdx = <<>>
  /\ skipped = <<>>
  /\ text = <<>>
  /\ received = 0
  /\ msg = Undefined
  /\ result = Undefined
  /\ m = Undefined
  /\ ex = Unused /\ cfg = Unused /\ twin = Unused /\ gen = Unused

\* stream(...args) up to the first await of an event, lines 190-200
Stream ==
  /\ pc = "created"
  /\ pc' = "loop"
  /\ buffer' = <<>>
  /\ itemsDone' = 0
  /\ UNCHANGED <<schema, out, outIdx, skipped, text, received, msg, result,
                 m, aux>>

\* one iteration of the for await loop, lines 202-221, on an event whose
\* delta content is delta
StreamEvent(delta) ==
  /\ pc = "loop"
  /\ ~IsSkipped(delta) => received < MaxFrags
  /\ m' = delta
  /\ UNCHANGED <<schema, msg, result, aux>>
  /\ IF IsSkipped(delta)
       THEN UNCHANGED <<pc, buffer, itemsDone, out, outIdx, skipped, text,
                        received>>
       ELSE /\ text' = text \o delta.v
            /\ received' = received + 1
            /\ IF ~IsZodArray(schema)
                 THEN /\ out' = Append(out, delta)
                      /\ UNCHANGED <<pc, buffer, itemsDone, outIdx, skipped>>
                 ELSE LET extract == extractCode(buffer \o delta.v)
                          data == parseAny(extract)
                          st == AccumulateLoop(schema, data, itemsDone, LoopState)
                      IN  /\ buffer' = buffer \o delta.v
                          /\ pc' = IF data = Thrown THEN "failed" ELSE "loop"
                          /\ IF ~IsArray(data)
                               THEN UNCHANGED <<itemsDone, out, outIdx, skipped>>
                               ELSE /\ itemsDone' = st.itemsDone
                                    /\ out' = st.out
                                    /\ outIdx' = st.outIdx
                                    /\ skipped' = st.skipped

\* the event source is exhausted: the code after the loop, lines 223-231
StreamEnd ==
  /\ pc = "loop"
  /\ pc' = IF IsZodArray(schema) /\ parseAny(extractCode(buffer)) = Thrown
             THEN "failed" ELSE "done"
  /\ UNCHANGED <<schema, buffer, itemsDone, text, received, msg, result, m,
                 aux>>
  /\ IF ~IsZodArray(schema)
       THEN UNCHANGED <<out, outIdx, skipped>>
       ELSE LET extract == extractCode(buffer)
                data == parseAny(extract)
                st == DrainLoop(schema, data, itemsDone, LoopState)
            IN  IF ~IsArray(data)
                  THEN UNCHANGED <<out, outIdx, skipped>>
                  ELSE /\ out' = st.out
                       /\ outIdx' = st.outIdx
                       /\ skipped' = st.skipped

\* run(...args), lines 160-183, on a completion whose message content is
\* absent or one of the complete texts
Run ==
  /\ pc = "created"
  /\ pc' = "returned"
  /\ \E content \in Contents :
       /\ msg' = content
       /\ result' = run(schema, content)
  /\ UNCHANGED <<schema, buffer, itemsDone, out, outIdx, skipped, text,
                 received, m, aux>>

Next ==
  \/ Stream
  \/ \E delta \in Deltas : StreamEvent(delta)
  \/ StreamEnd
  \/ Run

Spec == Init /\ [][Next]_vars

----------------------------------------------------------------------------
\* extractCode (src/index.ts:54-69) applied to a text on its own

\* Largest number of pieces a text given to extractCode is made of.
MaxExPieces == 5

\* the pieces: a fence, a fence character, a newline, a space, a letter of a
\* language tag, and a character that is none of these
ExPieces ==
  { <<Tick, Tick, Tick>>, <<Tick>>, <<"\n">>, <<" ">>, <<"j">>, <<"[">> }

RECURSIVE ExTexts(_)
\* the texts made of at most n pieces
ExTexts(n) ==
  IF n = 0 THEN {<<>>}
  ELSE LET shorter == ExTexts(n - 1)
       IN  shorter \cup {t \o f : t \in shorter, f \in ExPieces}

\* the state of the parts this specification does not use
CoreIdle ==
  /\ schema = ZString /\ pc = "created"
  /\ buffer = <<>> /\ itemsDone = 0
  /\ out = <<>> /\ outIdx = <<>> /\ skipped = <<>>
  /\ text = <<>> /\ received = 0
  /\ msg = Undefined /\ result = Undefined /\ m = Undefined

ExtractInit ==
  /\ CoreIdle
  /\ ex \in {[pc |-> "call", text |-> t, window |-> <<>>] :
               t \in ExTexts(MaxExPieces)}
  /\ cfg = Unused /\ twin = Unused /\ gen = Unused

\* one call extractCode(text)
Extract ==
  /\ ex.pc = "call"
  /\ ex' = [pc |-> "returned", text |-> ex.text,
            window |-> extractCode(ex.text)]
  /\ UNCHANGED <<core, cfg, twin, gen>>

ExtractNext == Extract

ExtractSpec == ExtractInit /\ [][ExtractNext]_vars

----------------------------------------------------------------------------
\* Notions the properties below are stated in

\* the candidate value the pipeline computes from a buffer or complete text
Candidate(b) == parseAny(extractCode(b))

\* the elements of a candidate, none when it is not an array
Elements(d) == IF IsArray(d) THEN d.v ELSE <<>>

\* the element-valid entries of an array candidate, in index order
ValidEntries(sch, d) ==
  LET Valid(e) == elementSafeParse(sch, e) IN SelectSeq(Elements(d), Valid)

\* the entries of a sequence after its first n
Added(old, new) == SubSeq(new, Len(old) + 1, Len(new))

\* the set of entries of a sequence
Range(q) == {q[k] : k \in DOMAIN q}

StrictlyIncreasing(q) == \A a, b \in DOMAIN q : a < b => q[a] < q[b]

\* a step that handles one event of the stream / the end-of-stream step
EventStep == pc = "loop" /\ pc' = "loop"
EndStep == pc = "loop" /\ pc' = "done"

----------------------------------------------------------------------------
\* C1: in a stream with an array schema no array index is yielded more than
\* once, over the emissions of all events and of the end of the stream.
NoDoubleEmission ==
  schema.kind = "array" =>
    \A a, b \in DOMAIN outIdx : a # b => outIdx[a] # outIdx[b]

\* a finished stream that yielded while events arrived and again at the end
NoDoubleEmissionWitness ==
  /\ schema.kind = "array" /\ pc = "done"
  /\ Len(outIdx) >= 2
  /\ outIdx[1] < itemsDone
  /\ outIdx[Len(outIdx)] >= itemsDone

\* C2: when a stream with an array schema has finished, the items it
\* yielded are, in order, the element-valid entries of the array the batch
\* pipeline (extractCode, then parseAny) computes from the complete text.
StreamEqualsBatch ==
  (schema.kind = "array" /\ pc = "done") =>
    out = ValidEntries(schema, Candidate(text))

\* C3 as stated: the yielded indices are strictly increasing and the first
\* of them is 0.
IndicesIncreasingFromZero ==
  schema.kind = "array" =>
    /\ StrictlyIncreasing(outIdx)
    /\ (outIdx # <<>> => outIdx[1] = 0)

\* C3, amended: the yielded indices are strictly increasing, and every index
\* below a yielded one was yielded or was rejected by validation; the first
\* yielded index is 0 unless element 0 was rejected.
IndicesIncreasing ==
  schema.kind = "array" =>
    /\ StrictlyIncreasing(outIdx)
    /\ \A k \in DOMAIN outIdx : \A i \in 0..(outIdx[k] - 1) :
         i \in Range(outIdx) \cup Range(skipped)
    /\ (outIdx # <<>> /\ 0 \notin Range(skipped) => outIdx[1] = 0)

\* a stream whose first yielded index is not 0, and one that yielded 0 and 1
IndicesIncreasingWitness ==
  /\ schema.kind = "array"
  /\ Len(outIdx) >= 2
  /\ outIdx[1] = 1
  /\ skipped = <<0>>

\* C4: handling an event never yields the element at the last index of the
\* candidate computed from the buffer accumulated so far.
LastNeverYieldedMidStream ==
  [][(EventStep /\ schema.kind = "array") =>
       \A i \in Range(Added(outIdx, outIdx')) :
         i < Len(Elements(Candidate(buffer'))) - 1]_vars

\* an element was yielded while the source was not exhausted
LastNeverYieldedMidStreamWitness ==
  schema.kind = "array" /\ pc = "loop" /\ Len(out) >= 2

\* C5: when the source is exhausted the stream recomputes the candidate from
\* the complete buffer and, if it is an array, yields in index order every
\* element-valid entry from the cursor up to and including the last index and
\* rejects the others; it yields nothing when the candidate is no array.
DrainYieldsRemaining ==
  [][(EndStep /\ schema.kind = "array") =>
       LET d == Candidate(buffer)
           rest == SubSeq(Elements(d), itemsDone + 1, Len(Elements(d)))
           Valid(e) == elementSafeParse(schema, e)
       IN  /\ Added(out, out') = SelectSeq(rest, Valid)
           /\ StrictlyIncreasing(Added(outIdx, outIdx'))
           /\ Range(Added(outIdx, outIdx')) \cup Range(Added(skipped, skipped'))
                = {i \in itemsDone..(Len(Elements(d)) - 1) : TRUE}
           /\ \A k \in DOMAIN outIdx' : k > Len(outIdx) =>
                out'[k] = Elements(d)[outIdx'[k] + 1]]_vars

\* a finished stream whose end yielded the last element of an array that
\* follows a fence, after an earlier element was yielded and one rejected
DrainYieldsRemainingWitness ==
  /\ schema.kind = "array" /\ pc = "done"
  /\ FindMatch(buffer, 1)[1] # 0
  /\ Len(outIdx) >= 1 /\ Len(skipped) >= 1
  /\ itemsDone >= 1
  /\ outIdx[Len(outIdx)] = Len(Elements(Candidate(buffer))) - 1
  /\ outIdx[Len(outIdx)] >= itemsDone

\* C6: an element that fails validation is not yielded, the cursor moves
\* past it, no index is validated twice, and every valid element the same
\* loop reaches after it is still yielded.
SkipInvalidAndContinue ==
  /\ [](schema.kind = "array" =>
          /\ Range(skipped) \cap Range(outIdx) = {}
          /\ \A a, b \in DOMAIN skipped : a # b => skipped[a] # skipped[b]
          /\ (pc = "loop" => \A k \in DOMAIN skipped : skipped[k] < itemsDone))
  /\ [][(EventStep /\ schema.kind = "array" /\ IsArray(Candidate(buffer'))) =>
          LET els == Elements(Candidate(buffer'))
          IN  \A i \in itemsDone..(Len(els) - 2) :
                /\ itemsDone' > i
                /\ IF elementSafeParse(schema, els[i + 1])
                     THEN i \in Range(Added(outIdx, outIdx'))
                     ELSE i \in Range(Added(skipped, skipped'))]_vars

\* an element was rejected while events arrived and a later element was
\* yielded by a later event
SkipInvalidAndContinueWitness ==
  /\ schema.kind = "array" /\ pc = "loop"
  /\ skipped # <<>>
  /\ outIdx # <<>>
  /\ outIdx[Len(outIdx)] > skipped[1]

\* the concatenation of the texts of a sequence of string items
RECURSIVE Flatten(_)
Flatten(q) == IF q = <<>> THEN <<>> ELSE q[1].v \o Flatten(Tail(q))

\* the stream passes the fragments through: every event with a non-empty
\* text delta yields that delta as one item, nothing else yields
RawItems ==
  /\ Len(out) = received
  /\ \A k \in DOMAIN out : IsString(out[k]) /\ out[k].v # <<>>
  /\ Flatten(out) = text

RawStep ==
  /\ \A d \in Deltas : StreamEvent(d) =>
       out' = IF IsString(d) /\ d.v # <<>> THEN Append(out, d) ELSE out
  /\ EndStep => out' = out

\* C7 as stated: the stream of an object schema yields no item.
ObjectStreamEmpty == schema.kind = "object" => out = <<>>

\* C7, amended: the stream of an object schema yields every non-empty
\* fragment raw, as it arrives, and nothing at the end of the stream.
ObjectStreamRaw ==
  /\ [](schema.kind = "object" => RawItems)
  /\ [][schema.kind = "object" => RawStep]_vars

\* a finished stream of an object schema that yielded fragments
ObjectStreamRawWitness ==
  schema.kind = "object" /\ pc = "done" /\ Len(out) >= 2

\* C8: the stream of a string schema yields exactly the non-empty fragments,
\* one item each, in arrival order and unmodified, and nothing at the end.
TextStreamRaw ==
  /\ [](schema.kind = "string" => RawItems)
  /\ [][schema.kind = "string" => RawStep]_vars

\* a finished stream of a string schema that yielded a fence and more
TextStreamRawWitness ==
  /\ schema.kind = "string" /\ pc = "done" /\ Len(out) >= 3
  /\ FindMatch(text, 1)[1] # 0

\* C9: run returns undefined when the completion has no content; content
\* that is the empty string goes through the normal path, so that a string
\* schema returns every content, the empty string included, and the other
\* schemas return the validated candidate.
RunNoContent ==
  pc = "returned" =>
    /\ (~IsString(msg) => result.t = "undefined")
    /\ (IsString(msg) /\ schema.kind = "string" => result = msg)
    /\ (IsString(msg) /\ schema.kind # "string" =>
          result = IF safeParse(schema, Candidate(msg.v))
                     THEN Candidate(msg.v) ELSE Undefined)

\* run returned the empty string for a string schema
RunNoContentWitness ==
  /\ pc = "returned" /\ schema.kind = "string"
  /\ msg = Str(<<>>) /\ result = Str(<<>>)

\* C10: for an array schema run returns the whole parsed array, and only
\* when every element is valid and the length constraint holds; otherwise it
\* returns undefined, never the valid elements alone.
RunWholeOrAbsent ==
  (pc = "returned" /\ schema.kind = "array" /\ IsString(msg)) =>
    LET d == Candidate(msg.v)
        whole == /\ IsArray(d)
                 /\ \A k \in DOMAIN Elements(d) :
                      elementSafeParse(schema, Elements(d)[k])
                 /\ (schema.length # NoLength => Len(Elements(d)) = schema.length)
    IN  IF whole THEN result = d ELSE result.t = "undefined"

\* run returned undefined for an array of the right length with a valid and
\* an invalid element
RunWholeOrAbsentWitness ==
  /\ pc = "returned" /\ schema = ZArray(1, 2) /\ IsString(msg)
  /\ Len(Elements(Candidate(msg.v))) = 2
  /\ ValidEntries(schema, Candidate(msg.v)) # <<>>
  /\ Len(ValidEntries(schema, Candidate(msg.v))) < 2
  /\ result.t = "undefined"

\* C15: after any fragment of a stream with an array schema is handled,
\* itemsDone is at most the number of elements of the candidate array of
\* the current buffer, also when a fence changes the window after
\* array-shaped text.
CursorWithinCandidate ==
  (pc \in {"loop", "done"} /\ IsZodArray(schema)
     /\ IsArray(Candidate(buffer)))
    => itemsDone <= Len(Candidate(buffer).v)

\* an event whose delta content is absent or the empty string
EmptyEvent(delta) == delta = Undefined \/ delta = Str(<<>>)

\* C16: an event with an empty or absent text delta changes neither the
\* buffer nor itemsDone and yields nothing, in every state of the stream and
\* for every schema.
EmptyFragmentNoOp ==
  [][(pc = "loop" /\ pc' = "loop" /\ EmptyEvent(m'))
       => UNCHANGED <<buffer, itemsDone, out, outIdx, skipped, text,
                      received>>]_vars

\* an empty delta has been handled in the middle of an array stream that has
\* a buffer, an advanced cursor and a yielded item
EmptyFragmentNoOpWitness ==
  /\ pc = "loop" /\ IsZodArray(schema)
  /\ m = Str(<<>>)
  /\ buffer # <<>> /\ itemsDone >= 1 /\ out # <<>>

\* no prefix of the text has an array as its candidate
NeverArray(t) ==
  \A k \in 0..Len(t) : ~IsArray(Candidate(SubSeq(t, 1, k)))

\* C17: a stream with an array schema whose buffer never parses to an array
\* yields nothing and finishes normally: no step at which the candidate is
\* not an array yields an item, and no exception leaves the stream.
NonArrayStreamSilent ==
  /\ [](pc # "failed")
  /\ []((IsZodArray(schema) /\ NeverArray(text)) => out = <<>>)
  /\ [][(pc = "loop" /\ IsZodArray(schema)
           /\ ~IsArray(Candidate(buffer')))
          => (out' = out /\ pc' \in {"loop", "done"})]_vars

\* a finished array stream of two fragments or more whose last window
\* neither PartialJSON nor YAML can parse, and that yielded nothing
NonArrayStreamSilentWitness ==
  /\ pc = "done" /\ IsZodArray(schema)
  /\ received >= 2
  /\ NeverArray(text)
  /\ ~PartialJSONparse(extractCode(buffer)).ok
  /\ ~YAMLparse(extractCode(buffer)).ok
  /\ out = <<>>

\* the larger of two integers
Max(a, b) == IF a >= b THEN a ELSE b

\* C20: after a fragment is handled whose candidate is an array of n
\* elements, itemsDone is the larger of its value before and n - 1.
CursorIsMax ==
  [][(EventStep /\ IsZodArray(schema) /\ received' = received + 1
       /\ IsArray(Candidate(buffer')))
      => itemsDone' = Max(itemsDone, Len(Candidate(buffer').v) - 1)]_vars

\* a candidate of three elements with the cursor on the last one
CursorIsMaxWitness ==
  /\ pc = "loop" /\ IsZodArray(schema)
  /\ IsArray(Candidate(buffer))
  /\ Len(Candidate(buffer).v) = 3
  /\ itemsDone = 2

----------------------------------------------------------------------------
\* The client: new PromptPig(options), .prompt(template, options) and the
\* request a run or a stream of the prompt sends (src/index.ts:95-129,
\* 144-166, 190-197)

\* Largest number of requests sent through one prompt.
MaxRequests == 2

\* a model option: absent, the empty string, or one of two names
Models == {Undefined, Str(<<>>), Str(<<"d">>), Str(<<"m">>)}

\* baseURL and apiKey: absent, the empty string, or a value
Credentials == {Undefined, Str(<<>>), Str(<<"k">>)}

\* the schema option: absent (the empty set) or one schema
SchemaOptions == {{}} \cup {{s} : s \in Schemas}

\* !x for an optional string
Falsy(x) == x = Undefined \/ x = Str(<<>>)

\* a ?? b
Coalesce(a, b) == IF a = Undefined THEN b ELSE a

\* const model = this.model ?? options?.model
ResolveModel(clientModel, optModel) == Coalesce(clientModel, optModel)

\* options.schema ?? z.string()
ResolveSchema(opt) == IF opt = {} THEN ZString ELSE CHOOSE s \in opt : TRUE

ConfigInit ==
  /\ CoreIdle
  /\ cfg = [pc |-> "start", clientModel |-> Undefined,
            optModel |-> Undefined, promptModel |-> Undefined,
            promptSchema |-> ZString, requests |-> <<>>]
  /\ ex = Unused /\ twin = Unused /\ gen = Unused

\* new PromptPig({openai, baseURL, apiKey, model})
NewPromptPig ==
  /\ cfg.pc = "start"
  /\ \E openai \in BOOLEAN, baseURL \in Credentials, apiKey \in Credentials,
        model \in Models :
       IF ~openai /\ ~(~Falsy(baseURL) /\ ~Falsy(apiKey))
       THEN cfg' = [cfg EXCEPT !.pc = "configError"]
       ELSE cfg' = [cfg EXCEPT !.pc = "client", !.clientModel = model]
  /\ UNCHANGED <<core, ex, twin, gen>>

\* pp.prompt(template, {model, schema})
NewPrompt ==
  /\ cfg.pc = "client"
  /\ \E optModel \in Models, optSchema \in SchemaOptions :
       LET model == ResolveModel(cfg.clientModel, optModel)
       IN  IF Falsy(model)
           THEN cfg' = [cfg EXCEPT !.pc = "modelError", !.optModel = optModel]
           ELSE cfg' = [cfg EXCEPT !.pc = "prompt", !.optModel = optModel,
                                   !.promptModel = model,
                                   !.promptSchema = ResolveSchema(optSchema)]
  /\ UNCHANGED <<core, ex, twin, gen>>

\* the request of prompt.run(...)
RunRequest ==
  /\ cfg.pc = "prompt"
  /\ Len(cfg.requests) < MaxRequests
  /\ cfg' = [cfg EXCEPT !.requests =
               Append(@, [model |-> cfg.promptModel, stream |-> FALSE])]
  /\ UNCHANGED <<core, ex, twin, gen>>

\* the request of prompt.stream(...)
StreamRequest ==
  /\ cfg.pc = "prompt"
  /\ Len(cfg.requests) < MaxRequests
  /\ cfg' = [cfg EXCEPT !.requests =
               Append(@, [model |-> cfg.promptModel, stream |-> TRUE])]
  /\ UNCHANGED <<core, ex, twin, gen>>

ConfigNext == NewPromptPig \/ NewPrompt \/ RunRequest \/ StreamRequest

ConfigSpec == ConfigInit /\ [][ConfigNext]_vars

\* C12: a request of a prompt created with a per-prompt model that differs
\* from the client default uses the per-prompt model, and uses the client
\* default only when no per-prompt model was given.
PromptModelOverrides ==
  \A k \in DOMAIN cfg.requests :
    /\ (~Falsy(cfg.optModel) /\ ~Falsy(cfg.clientModel)
          /\ cfg.optModel # cfg.clientModel)
         => cfg.requests[k].model = cfg.optModel
    /\ cfg.optModel = Undefined => cfg.requests[k].model = cfg.clientModel

----------------------------------------------------------------------------
\* Two invocations of stream() on one Prompt, their steps interleaved
\* (src/index.ts:190-232).  The Prompt holds template, openai, model and
\* schema; buffer and itemsDone are locals of each invocation.

\* Largest number of events one of the two invocations receives.
MaxTwinEvents == 2

Invocations == {1, 2}

\* the delta contents of the events the two invocations receive
TwinDeltas ==
  { Str(<<>>), Str(<<"[", "1", ",">>), Str(<<"[", "2", ",">>),
    Str(<<"1", ",">>), Str(<<"]">>) }

\* the element loops of one step start with nothing yielded in that step
StepStart(loc) ==
  [itemsDone |-> loc.itemsDone, out |-> <<>>, outIdx |-> <<>>,
   skipped |-> <<>>]

\* one iteration of the for await loop on the locals loc = [buffer,
\* itemsDone]: the locals after it and the items it yields
EventResult(sch, loc, delta) ==
  IF IsSkipped(delta)
    THEN [buffer |-> loc.buffer, itemsDone |-> loc.itemsDone, yielded |-> <<>>]
  ELSE IF ~IsZodArray(sch)
    THEN [buffer |-> loc.buffer, itemsDone |-> loc.itemsDone,
          yielded |-> <<delta>>]
  ELSE LET data == parseAny(extractCode(loc.buffer \o delta.v))
           st == AccumulateLoop(sch, data, loc.itemsDone, StepStart(loc))
       IN  IF ~IsArray(data)
             THEN [buffer |-> loc.buffer \o delta.v,
                   itemsDone |-> loc.itemsDone, yielded |-> <<>>]
             ELSE [buffer |-> loc.buffer \o delta.v,
                   itemsDone |-> st.itemsDone, yielded |-> st.out]

\* the items the code after the loop yields, lines 223-231
EndResult(sch, loc) ==
  IF ~IsZodArray(sch) THEN <<>>
  ELSE LET data == parseAny(extractCode(loc.buffer))
       IN  IF ~IsArray(data) THEN <<>>
           ELSE DrainLoop(sch, data, loc.itemsDone, StepStart(loc)).out

\* buffer and itemsDone kept in one place for all invocations
SharedLocals(tw, i) ==
  [buffer |-> tw.inv[1].buffer, itemsDone |-> tw.inv[1].itemsDone]

\* let buffer, let itemsDone (lines 199-200): the locals of invocation i
OwnLocals(tw, i) ==
  [buffer |-> tw.inv[i].buffer, itemsDone |-> tw.inv[i].itemsDone]

NotCalled ==
  [pc |-> "created", buffer |-> <<>>, itemsDone |-> 0, out |-> <<>>,
   fed |-> <<>>]

TwinInit ==
  /\ CoreIdle
  /\ twin \in {[schema |-> sch, inv |-> [i \in Invocations |-> NotCalled]] :
                 sch \in Schemas}
  /\ ex = Unused /\ cfg = Unused /\ gen = Unused

\* invocation i of stream(...) up to its first await of an event
TwinStream(i) ==
  /\ twin.inv[i].pc = "created"
  /\ twin' = [twin EXCEPT !.inv[i].pc = "loop", !.inv[i].buffer = <<>>,
                          !.inv[i].itemsDone = 0]
  /\ UNCHANGED <<core, ex, cfg, gen>>

\* invocation i handles one event
TwinEvent(i, delta) ==
  /\ twin.inv[i].pc = "loop"
  /\ Len(twin.inv[i].fed) < MaxTwinEvents
  /\ LET r == EventResult(twin.schema, OwnLocals(twin, i), delta)
     IN  twin' = [twin EXCEPT !.inv[i].buffer = r.buffer,
                             !.inv[i].itemsDone = r.itemsDone,
                             !.inv[i].out = @ \o r.yielded,
                             !.inv[i].fed = Append(@, delta)]
  /\ UNCHANGED <<core, ex, cfg, gen>>

\* the event source of invocation i is exhausted
TwinEnd(i) ==
  /\ twin.inv[i].pc = "loop"
  /\ twin' = [twin EXCEPT !.inv[i].pc = "done",
                          !.inv[i].out =
                            @ \o EndResult(twin.schema, OwnLocals(twin, i))]
  /\ UNCHANGED <<core, ex, cfg, gen>>

TwinNext ==
  \E i \in Invocations :
    \/ TwinStream(i)
    \/ \E delta \in TwinDeltas : TwinEvent(i, delta)
    \/ TwinEnd(i)

TwinSpec == TwinInit /\ [][TwinNext]_vars

RECURSIVE AloneFrom(_, _, _, _, _)
\* the items one invocation on its own yields for the events fed[k..], from
\* the locals loc and the items yielded so far
AloneFrom(sch, fed, k, loc, items) ==
  IF k > Len(fed) THEN [loc |-> loc, out |-> items]
  ELSE LET r == EventResult(sch, loc, fed[k])
       IN  AloneFrom(sch, fed, k + 1,
                     [buffer |-> r.buffer, itemsDone |-> r.itemsDone],
                     items \o r.yielded)

\* what an invocation that ran alone has yielded after the events fed, and
\* after the end of its event source when ended
Alone(sch, fed, ended) ==
  LET a == AloneFrom(sch, fed, 1, [buffer |-> <<>>, itemsDone |-> 0], <<>>)
  IN  IF ended THEN a.out \o EndResult(sch, a.loc) ELSE a.out

\* C18: two interleaved invocations of stream on the same Prompt each keep
\* their own buffer and itemsDone, and each yields exactly what it would
\* yield if it ran alone on its own events.
InvocationsIndependent ==
  \A i \in Invocations :
    twin.inv[i].pc \in {"loop", "done"} =>
      twin.inv[i].out =
        Alone(twin.schema, twin.inv[i].fed, twin.inv[i].pc = "done")

\* both invocations are in the middle of their streams at the same time,
\* with different buffers, and each has yielded an item
InvocationsIndependentWitness ==
  /\ IsZodArray(twin.schema)
  /\ \A i \in Invocations :
       /\ twin.inv[i].pc = "loop"
       /\ twin.inv[i].itemsDone >= 1
       /\ twin.inv[i].out # <<>>
  /\ twin.inv[1].buffer # twin.inv[2].buffer

----------------------------------------------------------------------------
\* stream() as the async generator it is, consumed by a for await loop
\* (src/README.md:92).  The body runs only while a next() of the consumer is
\* outstanding and is suspended at every yield; leaving the consumer's loop
\* early calls return() on the suspended generator.

\* Largest number of events the upstream delivers to one generator.
MaxPullEvents == 3

\* the delta contents of the events the generator receives
PullDeltas ==
  { Str(<<>>), Str(<<"[", "1", ",">>), Str(<<"1", ",">>),
    Str(<<"[", "1", ",", "1", ",", "1", ",">>), Str(<<"]">>) }

\* the generator before the first next()
Suspended(sch) ==
  [schema |-> sch, pc |-> "start", consumer |-> "idle",
   buffer |-> <<>>, itemsDone |-> 0, pending |-> <<>>, delivered |-> <<>>,
   requests |-> 0, events |-> 0]

PullInit ==
  /\ CoreIdle
  /\ gen \in {Suspended(sch) : sch \in Schemas}
  /\ ex = Unused /\ cfg = Unused /\ twin = Unused

\* the body may ask the upstream for its next event whether or not the
\* consumer has asked for an item
AwaitsEventEagerly(g) == g.pc = "loop"

\* the body is at the head of the for await loop (line 202): a next() is
\* outstanding and every yield of the events before has been resumed
AwaitsEvent(g) ==
  g.pc = "loop" /\ g.consumer = "waiting" /\ g.pending = <<>>

\* let buffer, let itemsDone (lines 199-200) of the generator
GenLocals(g) == [buffer |-> g.buffer, itemsDone |-> g.itemsDone]

\* the consumer's loop asks for the next item: next()
Pull ==
  /\ gen.consumer = "idle"
  /\ gen.pc \in {"start", "loop", "end"}
  /\ gen' = [gen EXCEPT !.consumer = "waiting"]
  /\ UNCHANGED <<core, ex, cfg, twin>>

\* the body runs from its start to the for await loop, lines 191-200
Open ==
  /\ gen.pc = "start" /\ gen.consumer = "waiting"
  /\ gen' = [gen EXCEPT !.pc = "loop", !.buffer = <<>>, !.itemsDone = 0]
  /\ UNCHANGED <<core, ex, cfg, twin>>

\* the body asks the upstream for the next event and handles it up to its
\* first yield; pending holds the items its remaining yields produce
RequestEvent(delta) ==
  /\ AwaitsEvent(gen)
  /\ gen.events < MaxPullEvents
  /\ LET r == EventResult(gen.schema, GenLocals(gen), delta)
     IN  gen' = [gen EXCEPT !.buffer = r.buffer, !.itemsDone = r.itemsDone,
                           !.pending = r.yielded,
                           !.requests = @ + 1, !.events = @ + 1]
  /\ UNCHANGED <<core, ex, cfg, twin>>

\* the body asks for the next event and the upstream is exhausted: the code
\* after the loop runs up to its first yield
RequestEnd ==
  /\ AwaitsEvent(gen)
  /\ gen' = [gen EXCEPT !.pc = "end", !.requests = @ + 1,
                        !.pending =
                          EndResult(gen.schema, GenLocals(gen))]
  /\ UNCHANGED <<core, ex, cfg, twin>>

\* a yield: the outstanding next() receives the item and the body suspends
Yield ==
  /\ gen.consumer = "waiting"
  /\ gen.pc \in {"loop", "end"}
  /\ gen.pending # <<>>
  /\ gen' = [gen EXCEPT !.pending = Tail(@),
                        !.delivered = Append(@, Head(gen.pending)),
                        !.consumer = "idle"]
  /\ UNCHANGED <<core, ex, cfg, twin>>

\* the body returns (line 223, 226 or the end of the function): the
\* outstanding next() receives done
Return ==
  /\ gen.consumer = "waiting"
  /\ gen.pc = "end"
  /\ gen.pending = <<>>
  /\ gen' = [gen EXCEPT !.pc = "done", !.consumer = "idle"]
  /\ UNCHANGED <<core, ex, cfg, twin>>

\* the consumer leaves its loop before done: return() on the suspended
\* generator, which ends at the yield it is suspended at
Abandon ==
  /\ gen.consumer = "idle"
  /\ gen.pc \in {"start", "loop", "end"}
  /\ gen' = [gen EXCEPT !.pc = "closed", !.consumer = "abandoned"]
  /\ UNCHANGED <<core, ex, cfg, twin>>

PullNext ==
  \/ Pull
  \/ Open
  \/ \E delta \in PullDeltas : RequestEvent(delta)
  \/ RequestEnd
  \/ Yield
  \/ Return
  \/ Abandon

PullSpec == PullInit /\ [][PullNext]_vars

\* C19: the stream asks the upstream for its next fragment only when the
\* consumer has pulled every item produced from the fragments received so
\* far and is waiting for another, and once the consumer has abandoned the
\* stream no fragment is requested and no item is produced any more.
PullDriven ==
  /\ [][gen'.requests > gen.requests
          => (gen.consumer = "waiting" /\ gen.pending = <<>>)]_vars
  /\ [][gen.consumer = "abandoned"
          => (gen'.requests = gen.requests
               /\ gen'.delivered = gen.delivered
               /\ gen'.pending = gen.pending)]_vars
  /\ [](gen.consumer = "abandoned" => gen.pc = "closed")

\* the consumer abandoned a stream after two fragments and one item, while
\* the generator was suspended at a yield with a further item to come
PullDrivenWitness ==
  /\ gen.consumer = "abandoned"
  /\ gen.requests >= 2
  /\ Len(gen.delivered) >= 1
  /\ gen.pending # <<>>
  /\ gen.events < MaxPullEvents

----------------------------------------------------------------------------
\* Properties of extractCode, checked under ExtractSpec

\* the first and the second delimiter of a text, as <<start, end>>
Delim1(t) == FindMatch(t, 1)
Delim2(t) == FindMatch(t, Delim1(t)[2])

\* C11: for a text with two or more delimiters extractCode returns exactly
\* the text between the end of the first and the start of the second, and
\* what follows the second delimiter does not change the result.
BetweenFirstTwo ==
  (ex.pc = "returned" /\ MatchCount(ex.text, 1) >= 2) =>
    /\ ex.window = SubSeq(ex.text, Delim1(ex.text)[2], Delim2(ex.text)[1] - 1)
    /\ ex.window = extractCode(SubSeq(ex.text, 1, Delim2(ex.text)[2] - 1))

\* a text with three delimiters and a non-empty first block
BetweenFirstTwoWitness ==
  /\ ex.pc = "returned"
  /\ MatchCount(ex.text, 1) >= 3
  /\ ex.window # <<>>

\* C13: for a text with exactly one delimiter extractCode returns everything
\* after the delimiter up to the end of the text, and none of the text
\* before or inside the delimiter.
AfterSingleDelimiter ==
  (ex.pc = "returned" /\ MatchCount(ex.text, 1) = 1) =>
    /\ ex.window = SubSeq(ex.text, Delim1(ex.text)[2], Len(ex.text))
    /\ Len(ex.window) = Len(ex.text) - (Delim1(ex.text)[2] - 1)
    /\ ex.text = SubSeq(ex.text, 1, Delim1(ex.text)[2] - 1) \o ex.window

\* a text with text before its only delimiter, a language tag and a window
AfterSingleDelimiterWitness ==
  /\ ex.pc = "returned"
  /\ MatchCount(ex.text, 1) = 1
  /\ Delim1(ex.text)[1] > 1
  /\ \E k \in Delim1(ex.text)[1]..(Delim1(ex.text)[2] - 1) : ex.text[k] = "j"
  /\ ex.window # <<>>

\* the fence characters of t form one run, of three or more
OneFenceRun(t) ==
  LET ticks == {k \in DOMAIN t : t[k] = Tick}
  IN  /\ Cardinality(ticks) >= 3
      /\ \A a, b \in ticks : \A k \in a..b : k \in ticks

\* C14: a run of three or more fence characters is recognized as exactly
\* one delimiter and none of its fence characters is left in the window.
LongFenceOneDelimiter ==
  (ex.pc = "returned" /\ OneFenceRun(ex.text)) =>
    /\ MatchCount(ex.text, 1) = 1
    /\ Tick \notin Range(ex.window)

====
